---- MODULE Spec2Model ----
(***************************************************************************)
(* Path algebra of the test harness (vpath): separator normalisation,      *)
(* root detection, parse / reduce / format, normalize, combine, resolve,   *)
(* relative, basename and dirname.                                         *)
(*                                                                         *)
(* A path string is a sequence of one-character strings.  Every function   *)
(* of the source is an operator that computes what the source computes,    *)
(* character by character; the regular expressions of the source are       *)
(* written out as the scanners they denote.                                *)
(***************************************************************************)
EXTENDS Integers, Sequences, FiniteSets, TLC

VARIABLES call, arg, ret, disk, host, docs

vars == <<call, arg, ret, disk, host, docs>>

\* the state the path algebra does not touch: the disk of io, the compiler
\* host and the text documents
envVars == <<disk, host, docs>>

(***************************************************************************)
(* Bounds of the model.                                                    *)
(***************************************************************************)
\* longest input path of the one-path operations
MaxLen == 6
\* longest "from" and "to" path given to relative
MaxRelLen == 4
\* longest base and longest part given to combine
MaxPartLen == 2
\* most parts given to combine after the base
MaxParts == 2

\* characters of the one-path inputs
PathChars == {"/", "\\", ".", ":", " ", "a"}
\* characters of the inputs of relative
RelChars == {"/", ".", "a", "A"}
\* characters of the inputs of combine
PartChars == {"/", " ", "a"}

StringsOver(chars, n) == UNION {[1..k -> chars] : k \in 0..n}

(***************************************************************************)
(* Character classes of the regular expressions.                           *)
(***************************************************************************)
\* [\\/]
IsSep(c) == c \in {"/", "\\"}
\* \s
IsSpace(c) == c = " "
\* [a-zA-Z]
IsLetter(c) == c \in {"a", "b", "c", "A", "B", "C"}
\* \w
IsWord(c) == IsLetter(c)

toUpperCase(c) == CASE c = "a" -> "A" [] c = "b" -> "B" [] c = "c" -> "C" [] OTHER -> c

Max(a, b) == IF a >= b THEN a ELSE b

(***************************************************************************)
(* utils: compareStrings.  The collators compare with sensitivity          *)
(* "variant" (case matters) or "accent" (case does not); the callers       *)
(* modelled here use only whether the result is 0.                         *)
(***************************************************************************)
UpperString(s) == [i \in 1..Len(s) |-> toUpperCase(s[i])]

compareStrings(a, b, ignoreCase) ==
    IF a = b THEN 0
    ELSE IF ignoreCase /\ UpperString(a) = UpperString(b) THEN 0
    ELSE 1

(***************************************************************************)
(* vpath: normalizeSlashes.                                                *)
(***************************************************************************)
RECURSIVE SkipSpaces(_, _)
\* the first index >= i of s that holds no whitespace (Len(s) + 1 if none)
SkipSpaces(s, i) ==
    IF i <= Len(s) /\ IsSpace(s[i]) THEN SkipSpaces(s, i + 1) ELSE i

RECURSIVE ReplaceSeps(_, _)
\* path.replace(/\s*[\\/]\s*/g, "/") from index i on
ReplaceSeps(s, i) ==
    IF i > Len(s) THEN <<>>
    ELSE LET j == SkipSpaces(s, i) IN
         IF j <= Len(s) /\ IsSep(s[j])
         THEN <<"/">> \o ReplaceSeps(s, SkipSpaces(s, j + 1))
         ELSE <<s[i]>> \o ReplaceSeps(s, i + 1)

RECURSIVE TrimEnd(_)
TrimEnd(s) ==
    IF Len(s) > 0 /\ IsSpace(s[Len(s)]) THEN TrimEnd(SubSeq(s, 1, Len(s) - 1)) ELSE s

\* String.prototype.trim
Trim(s) == LET t == TrimEnd(s) IN SubSeq(t, SkipSpaces(t, 1), Len(t))

RECURSIVE CollapseSeps(_, _)
\* a variant that also folds a run of separators into one "/"
CollapseSeps(s, i) ==
    IF i > Len(s) THEN <<>>
    ELSE LET j == SkipSpaces(s, i) IN
         IF j <= Len(s) /\ IsSep(s[j])
         THEN LET k == SkipSpaces(s, j + 1) IN
              IF k <= Len(s) /\ IsSep(s[k]) THEN CollapseSeps(s, k)
              ELSE <<"/">> \o CollapseSeps(s, k)
         ELSE <<s[i]>> \o CollapseSeps(s, i + 1)

\* normalizeSlashes with runs of separators collapsed
normalizeSlashesCollapsing(path) == Trim(CollapseSeps(path, 1))

normalizeSlashes(path) == Trim(ReplaceSeps(path, 1))

(***************************************************************************)
(* vpath: rootRegExp, getRootLength, isAbsolute, hasTrailingSeperator.     *)
(***************************************************************************)
RECURSIVE FirstSep(_, _)
\* the first index >= i of s that holds a separator, 0 if none
FirstSep(s, i) ==
    IF i > Len(s) THEN 0
    ELSE IF IsSep(s[i]) THEN i
    ELSE FirstSep(s, i + 1)

RECURSIVE WordRun(_, _)
\* the last index of the run of \w characters that starts at i (i - 1 if none)
WordRun(s, i) ==
    IF i <= Len(s) /\ IsWord(s[i]) THEN WordRun(s, i + 1) ELSE i - 1

\* ^[\\/]([\\/](.*?[\\/](.*?[\\/])?)?)?  : length of the match, 0 if none
RootUnc(path) ==
    IF Len(path) = 0 \/ ~IsSep(path[1]) THEN 0
    ELSE IF Len(path) < 2 \/ ~IsSep(path[2]) THEN 1
    ELSE LET k1 == FirstSep(path, 3) IN
         IF k1 = 0 THEN 2
         ELSE LET k2 == FirstSep(path, k1 + 1) IN
              IF k2 = 0 THEN k1 ELSE k2

\* ^[a-zA-Z]:[\\/]?
RootDrive(path) ==
    IF Len(path) >= 2 /\ IsLetter(path[1]) /\ path[2] = ":"
    THEN IF Len(path) >= 3 /\ IsSep(path[3]) THEN 3 ELSE 2
    ELSE 0

\* ^\w+:\/{2}[^\\/]*[\\/]?
RootUrl(path) ==
    LET w == WordRun(path, 1) IN
    IF w >= 1 /\ Len(path) >= w + 3
       /\ path[w + 1] = ":" /\ path[w + 2] = "/" /\ path[w + 3] = "/"
    THEN LET k == FirstSep(path, w + 4) IN
         IF k = 0 THEN Len(path) ELSE k
    ELSE 0

getRootLength(path) ==
    IF RootUnc(path) > 0 THEN RootUnc(path)
    ELSE IF RootDrive(path) > 0 THEN RootDrive(path)
    ELSE RootUrl(path)

\* rootRegExp.test(path): every alternative matches at least one character
isAbsolute(path) == RootUnc(path) > 0 \/ RootDrive(path) > 0 \/ RootUrl(path) > 0

hasTrailingSeperator(path) == Len(path) > 0 /\ IsSep(path[Len(path)])

(***************************************************************************)
(* vpath: parse, reduce, format, normalize.                                *)
(***************************************************************************)
RECURSIVE SkipSlashes(_, _)
SkipSlashes(s, i) ==
    IF i <= Len(s) /\ s[i] = "/" THEN SkipSlashes(s, i + 1) ELSE i

RECURSIVE SplitFrom(_, _, _)
\* s.split(/\/+/g) from index i on, cur being the piece read so far
SplitFrom(s, i, cur) ==
    IF i > Len(s) THEN <<cur>>
    ELSE IF s[i] = "/" THEN <<cur>> \o SplitFrom(s, SkipSlashes(s, i), <<>>)
    ELSE SplitFrom(s, i + 1, Append(cur, s[i]))

Split(s) == SplitFrom(s, 1, <<>>)

\* parse with the last component dropped whether or not it is empty
parsePopAlways(path) ==
    LET rootLength == getRootLength(path)
        root == SubSeq(path, 1, rootLength)
        all == Split(SubSeq(path, rootLength + 1, Len(path)))
        rest == IF Len(all) > 0 THEN SubSeq(all, 1, Len(all) - 1) ELSE all
    IN <<root>> \o [i \in 1..Len(rest) |-> Trim(rest[i])]

parse(path) ==
    LET rootLength == getRootLength(path)
        root == SubSeq(path, 1, rootLength)
        all == Split(SubSeq(path, rootLength + 1, Len(path)))
        rest == IF Len(all) > 0 /\ all[Len(all)] = <<>>
                THEN SubSeq(all, 1, Len(all) - 1) ELSE all
    IN <<root>> \o [i \in 1..Len(rest) |-> Trim(rest[i])]

DotDot == <<".", ".">>
Dot == <<".">>

RECURSIVE ReduceFrom(_, _, _)
\* the loop of reduce: components[i..] folded into normalized
ReduceFrom(components, i, normalized) ==
    IF i > Len(components) THEN normalized
    ELSE LET component == components[i] IN
         IF component = Dot THEN ReduceFrom(components, i + 1, normalized)
         ELSE IF component = DotDot /\ Len(normalized) > 0
                 /\ normalized[Len(normalized)] # DotDot
         THEN ReduceFrom(components, i + 1, SubSeq(normalized, 1, Len(normalized) - 1))
         ELSE ReduceFrom(components, i + 1, Append(normalized, component))

reduce(components) == ReduceFrom(components, 2, <<components[1]>>)

RECURSIVE Join(_)
\* components.join("/")
Join(components) ==
    IF Len(components) = 0 THEN <<>>
    ELSE IF Len(components) = 1 THEN components[1]
    ELSE components[1] \o <<"/">> \o Join(Tail(components))

format(components) ==
    IF Len(components) > 0 THEN components[1] \o Join(Tail(components)) ELSE <<>>

normalize(path) ==
    LET components == reduce(parse(normalizeSlashes(path))) IN
    IF Len(components) > 1 /\ hasTrailingSeperator(path)
    THEN format(components) \o <<"/">>
    ELSE format(components)

(***************************************************************************)
(* vpath: combine, resolve, relative, basename, dirname.                   *)
(***************************************************************************)
\* the turn of the loop with a "/" added whatever the accumulator ends in
CombineStepAlwaysSlash(path, name0) ==
    LET name == normalizeSlashes(name0) IN
    IF Len(name) = 0 THEN path
    ELSE IF Len(path) = 0 \/ isAbsolute(name) THEN name
    ELSE path \o <<"/">> \o name

\* one turn of the loop of combine: path is the accumulator, name0 a part
CombineStep(path, name0) ==
    LET name == normalizeSlashes(name0) IN
    IF Len(name) = 0 THEN path
    ELSE IF Len(path) = 0 \/ isAbsolute(name) THEN name
    ELSE IF hasTrailingSeperator(path) THEN path \o name
    ELSE path \o <<"/">> \o name

RECURSIVE CombineFrom(_, _, _)
CombineFrom(path, paths, i) ==
    IF i > Len(paths) THEN path
    ELSE CombineFrom(CombineStep(path, paths[i]), paths, i + 1)

combine(path, paths) == CombineFrom(normalizeSlashes(path), paths, 1)

resolve(path, paths) == normalize(combine(path, paths))

RECURSIVE CommonStart(_, _, _, _)
\* the first loop of relative: the first index from start on (0-based) at
\* which the two component lists differ or one of them ends
CommonStart(fromComponents, toComponents, ignoreCase, start) ==
    IF start < Len(fromComponents) /\ start < Len(toComponents)
       /\ compareStrings(fromComponents[start + 1], toComponents[start + 1], ignoreCase) = 0
    THEN CommonStart(fromComponents, toComponents, ignoreCase, start + 1)
    ELSE start

Returned(v) == [threw |-> FALSE, value |-> v]
Thrown(m) == [threw |-> TRUE, value |-> m]

\* relative with the two checks in the other order
relativeToFirst(from, to, ignoreCase) ==
    IF ~isAbsolute(to) THEN Thrown("Path not absolute: to")
    ELSE IF ~isAbsolute(from) THEN Thrown("Path not absolute: from")
    ELSE Returned(<<>>)

\* relative without the ".." for the components of from left over
relativeNoDots(from, to, ignoreCase) ==
    IF ~isAbsolute(from) THEN Thrown("Path not absolute: from")
    ELSE IF ~isAbsolute(to) THEN Thrown("Path not absolute: to")
    ELSE
    LET fromComponents == reduce(parse(from))
        toComponents == reduce(parse(to))
        start == CommonStart(fromComponents, toComponents, ignoreCase, 0)
    IN IF start = 0 THEN Returned(format(toComponents))
       ELSE Returned(format(<<<<>>>> \o SubSeq(toComponents, start + 1, Len(toComponents))))

\* relative without the return of the formatted to when the roots differ
relativeNoRootCase(from, to, ignoreCase) ==
    IF ~isAbsolute(from) THEN Thrown("Path not absolute: from")
    ELSE IF ~isAbsolute(to) THEN Thrown("Path not absolute: to")
    ELSE
    LET fromComponents == reduce(parse(from))
        toComponents == reduce(parse(to))
        start == Max(1, CommonStart(fromComponents, toComponents, ignoreCase, 0))
        components == [i \in 1..Max(0, Len(fromComponents) - start) |-> DotDot]
                         \o SubSeq(toComponents, start + 1, Len(toComponents))
    IN Returned(format(<<<<>>>> \o components))

relative(from, to, ignoreCase) ==
    IF ~isAbsolute(from) THEN Thrown("Path not absolute: from")
    ELSE IF ~isAbsolute(to) THEN Thrown("Path not absolute: to")
    ELSE
    LET fromComponents == reduce(parse(from))
        toComponents == reduce(parse(to))
        start == CommonStart(fromComponents, toComponents, ignoreCase, 0)
        \* toComponents.slice(start), then one ".." unshifted for each
        \* component of from at index start or beyond
        components == [i \in 1..Max(0, Len(fromComponents) - start) |-> DotDot]
                         \o SubSeq(toComponents, start + 1, Len(toComponents))
    IN IF start = 0 THEN Returned(format(toComponents))
       ELSE Returned(format(<<<<>>>> \o components))

RECURSIVE LastSlash(_, _)
\* path.lastIndexOf("/") + 1 over the first i characters: 0 if there is none
LastSlash(path, i) ==
    IF i = 0 THEN 0
    ELSE IF path[i] = "/" THEN i
    ELSE LastSlash(path, i - 1)

\* basename cut at the last "/" even inside the root
basenameIgnoreRoot(path0) ==
    LET path == normalizeSlashes(path0) IN
    SubSeq(path, LastSlash(path, Len(path)) + 1, Len(path))

basename(path0) ==
    LET path == normalizeSlashes(path0) IN
    SubSeq(path, Max(getRootLength(path), LastSlash(path, Len(path))) + 1, Len(path))

dirname(path0) ==
    LET path == normalizeSlashes(path0) IN
    SubSeq(path, 1, Max(getRootLength(path), LastSlash(path, Len(path)) - 1))

(***************************************************************************)
(* The harness: one call of an operation on inputs drawn from the bounded  *)
(* sets, then the operations a property applies to what the call returned, *)
(* then back to idle.  call names the last operation, arg its arguments    *)
(* and ret what it returned.                                               *)
(***************************************************************************)
\* an empty disk
EmptyDisk(caseSensitive) == [caseSensitive |-> caseSensitive, dirs |-> {}, files |-> {}]

\* a compiler host just constructed over a vfs without files, whose current
\* directory is the root; overwriteRenames says whether a file overwritten
\* under a name of other case takes that name
NewHost(caseSensitive, overwriteRenames) ==
    [caseSensitive |-> caseSensitive, overwriteRenames |-> overwriteRenames,
     cwd |-> <<"/">>, files |-> {}, writes |-> 0,
     outputs |-> <<>>, sourceFiles |-> <<>>, parsed |-> 0]

Init ==
    /\ call = "idle" /\ arg = <<>> /\ ret = <<>>
    /\ disk = EmptyDisk(TRUE) /\ host = NewHost(TRUE, FALSE) /\ docs = <<>>

Return ==
    /\ call # "idle"
    /\ call' = "idle" /\ arg' = <<>> /\ ret' = <<>>
    /\ UNCHANGED envVars

CallNormalize ==
    /\ call = "idle"
    /\ \E p \in StringsOver(PathChars, MaxLen) :
          /\ arg' = <<p>>
          /\ ret' = normalize(p)
    /\ call' = "normalize"
    /\ UNCHANGED envVars

\* normalize applied to the path normalize returned
Renormalize ==
    /\ call = "normalize"
    /\ arg' = <<ret>>
    /\ ret' = normalize(ret)
    /\ call' = "renormalize"
    /\ UNCHANGED envVars

\* parse, then format, applied to the path normalize returned
ParseFormat ==
    /\ call = "normalize"
    /\ arg' = <<ret>>
    /\ ret' = format(parse(ret))
    /\ call' = "parseformat"
    /\ UNCHANGED envVars

CallNormalizeSlashes ==
    /\ call = "idle"
    /\ \E p \in StringsOver(PathChars, MaxLen) :
          /\ arg' = <<p>>
          /\ ret' = normalizeSlashes(p)
    /\ call' = "normalizeSlashes"
    /\ UNCHANGED envVars

\* the parse step of normalize
CallParse ==
    /\ call = "idle"
    /\ \E p \in StringsOver(PathChars, MaxLen) :
          /\ arg' = <<p>>
          /\ ret' = parse(normalizeSlashes(p))
    /\ call' = "parse"
    /\ UNCHANGED envVars

\* the reduce step of normalize, on the components parse returned
Reduce ==
    /\ call = "parse"
    /\ arg' = <<ret>>
    /\ ret' = reduce(ret)
    /\ call' = "reduce"
    /\ UNCHANGED envVars

CallDirnameBasename ==
    /\ call = "idle"
    /\ \E p \in StringsOver(PathChars, MaxLen) :
          /\ arg' = <<p>>
          /\ ret' = [dirname |-> dirname(p), basename |-> basename(p)]
    /\ call' = "dirname_basename"
    /\ UNCHANGED envVars

\* combine applied to the dirname and the basename of a path
Recombine ==
    /\ call = "dirname_basename"
    /\ arg' = <<arg[1], ret.dirname, ret.basename>>
    /\ ret' = combine(ret.dirname, <<ret.basename>>)
    /\ call' = "recombine"
    /\ UNCHANGED envVars

NextPath ==
    \/ CallNormalize \/ Renormalize \/ ParseFormat
    \/ CallNormalizeSlashes
    \/ CallParse \/ Reduce
    \/ CallDirnameBasename \/ Recombine
    \/ Return

SpecPath == Init /\ [][NextPath]_vars

CallRelative ==
    /\ call = "idle"
    /\ \E from \in StringsOver(RelChars, MaxRelLen), to \in StringsOver(RelChars, MaxRelLen),
          ignoreCase \in BOOLEAN :
          /\ arg' = <<from, to, ignoreCase>>
          /\ ret' = relative(from, to, ignoreCase)
    /\ call' = "relative"
    /\ UNCHANGED envVars

\* resolve applied to from and the path relative returned
ResolveBack ==
    /\ call = "relative"
    /\ ~ret.threw
    /\ arg' = <<arg[1], arg[2], arg[3], ret.value>>
    /\ ret' = resolve(arg[1], <<ret.value>>)
    /\ call' = "resolve"
    /\ UNCHANGED envVars

NextRelative == CallRelative \/ ResolveBack \/ Return

SpecRelative == Init /\ [][NextRelative]_vars

\* combine(base) with no parts
CallCombine ==
    /\ call = "idle"
    /\ \E base \in StringsOver(PartChars, MaxPartLen) :
          /\ arg' = <<base, <<>>>>
          /\ ret' = combine(base, <<>>)
    /\ call' = "combine"
    /\ UNCHANGED envVars

\* combine called with the same base and one more part
CallCombineMore ==
    /\ call = "combine"
    /\ Len(arg[2]) < MaxParts
    /\ \E name \in StringsOver(PartChars, MaxPartLen) :
          /\ arg' = <<arg[1], Append(arg[2], name)>>
          /\ ret' = combine(arg[1], Append(arg[2], name))
    /\ call' = "combine"
    /\ UNCHANGED envVars

NextCombine == CallCombine \/ CallCombineMore \/ Return

SpecCombine == Init /\ [][NextCombine]_vars

(***************************************************************************)
(* Properties of the one-path operations, under SpecPath.                  *)
(***************************************************************************)
Count(s, P(_)) == Cardinality({i \in 1..Len(s) : P(s[i])})
IsSlash(c) == c = "/"
IsPlain(c) == ~IsSep(c) /\ ~IsSpace(c)
\* the characters of s that are neither separators nor whitespace, in order
RECURSIVE PlainChars(_)
PlainChars(s) ==
    IF Len(s) = 0 THEN <<>>
    ELSE IF IsPlain(s[1]) THEN <<s[1]>> \o PlainChars(Tail(s))
    ELSE PlainChars(Tail(s))

\* C1: normalize is idempotent: normalize applied to a path that normalize
\* returned gives that path back.
C1_NormalizeIdempotent == call = "renormalize" => ret = arg[1]

\* C3: reduce never removes the root (element 0 of the component list), and
\* a ".." with no real component before it is retained: the leading ".."
\* components of a relative path stay in front of the result.
C3_RootNeverRemoved ==
    call = "reduce" =>
        /\ Len(ret) >= 1
        /\ ret[1] = arg[1][1]
        /\ (Len(arg[1]) >= 2 /\ arg[1][2] = DotDot => Len(ret) >= 2 /\ ret[2] = DotDot)

\* C4, as claimed: parse then format gives back every normalized path, also
\* one that keeps a trailing separator.
C4_RoundTripAll == call = "parseformat" => ret = arg[1]

\* C4, amended: parse then format gives back a normalized path that has no
\* whitespace directly after its root and that consists of its root alone or
\* does not end in a separator; from such a path that ends in a separator
\* after its root they give the path without that separator.
C4_RoundTrip ==
    call = "parseformat" =>
        LET n == arg[1]
            r == getRootLength(n)
            spaceAfterRoot == r < Len(n) /\ IsSpace(n[r + 1])
        IN IF spaceAfterRoot THEN TRUE
           ELSE IF hasTrailingSeperator(n) /\ r < Len(n) THEN ret \o <<"/">> = n
           ELSE ret = n

C4_Witness ==
    /\ call = "parseformat"
    /\ arg[1] = <<"/", "a", "/", "a">>
    /\ ret = arg[1]

C4_WitnessTrailing ==
    /\ call = "parseformat"
    /\ arg[1] = <<"a", "/", "a", "/">>
    /\ ret = <<"a", "/", "a">>

\* C5, as claimed: the result of normalizeSlashes holds no two adjacent "/"
\* and no backslash.
C5_NoAdjacentSlashes ==
    call = "normalizeSlashes" =>
        /\ \A i \in 1..Len(ret) : ret[i] # "\\"
        /\ \A i \in 1..Len(ret) - 1 : ~(ret[i] = "/" /\ ret[i + 1] = "/")

\* C5, amended: normalizeSlashes replaces each separator character, with the
\* whitespace around it, by one "/" and trims the string: the result holds
\* no backslash, no whitespace next to a "/" or at either end, one "/" for
\* each separator of the input (a run of separators is not collapsed), and
\* the other characters of the input unchanged and in order.
C5_SeparatorsReplaced ==
    call = "normalizeSlashes" =>
        /\ \A i \in 1..Len(ret) : ret[i] # "\\"
        /\ \A i \in 1..Len(ret) - 1 :
              ~(IsSpace(ret[i]) /\ ret[i + 1] = "/") /\ ~(ret[i] = "/" /\ IsSpace(ret[i + 1]))
        /\ Len(ret) > 0 => ~IsSpace(ret[1]) /\ ~IsSpace(ret[Len(ret)])
        /\ Count(ret, IsSlash) = Count(arg[1], IsSep)
        /\ PlainChars(ret) = PlainChars(arg[1])

C5_Witness ==
    /\ call = "normalizeSlashes"
    /\ arg[1] = <<"a", " ", "\\", "/", "a">>
    /\ ret = <<"a", "/", "/", "a">>

\* C10, as claimed: dirname holds the whole root, basename none of it, and
\* combine(dirname(p), basename(p)) is the separator-normalized p whenever
\* that has no trailing separator.
C10_RecombineAll ==
    /\ call = "dirname_basename" =>
          LET n == normalizeSlashes(arg[1])
              r == getRootLength(n)
          IN /\ Len(ret.dirname) >= r
             /\ SubSeq(n, 1, r) = SubSeq(ret.dirname, 1, r)
             /\ Len(ret.basename) <= Len(n) - r
    /\ call = "recombine" /\ ~hasTrailingSeperator(normalizeSlashes(arg[1])) =>
          ret = normalizeSlashes(arg[1])

\* the last index of n that holds a "/", 0 if none
LastSlashOf(n) ==
    IF \E i \in 1..Len(n) : n[i] = "/"
    THEN CHOOSE i \in 1..Len(n) : n[i] = "/" /\ \A j \in (i + 1)..Len(n) : n[j] # "/"
    ELSE 0

\* C10, amended: with n the separator-normalized p, basename(p) is what
\* follows and dirname(p) what precedes the last "/" of n outside the root
\* (the rest and the root when there is no such "/"): dirname holds the
\* whole root and basename none of it.  When n has no trailing separator,
\* combine(dirname(p), basename(p)) is n exactly when the basename is not
\* itself rooted (as in "a/a:"), the dirname does not end in a separator
\* before the one the split removed (as in "a//a"), and a name that follows
\* the root directly follows a root that ends in a separator (not "a:a").
C10_DirnameBasename ==
    /\ call = "dirname_basename" =>
          LET n == normalizeSlashes(arg[1])
              r == getRootLength(n)
              k == LastSlashOf(n)
          IN IF k > r
             THEN /\ ret.dirname = SubSeq(n, 1, k - 1)
                  /\ ret.basename = SubSeq(n, k + 1, Len(n))
             ELSE /\ ret.dirname = SubSeq(n, 1, r)
                  /\ ret.basename = SubSeq(n, r + 1, Len(n))
    /\ call = "recombine" /\ ~hasTrailingSeperator(normalizeSlashes(arg[1])) =>
          LET n == normalizeSlashes(arg[1])
              r == getRootLength(n)
              k == LastSlashOf(n)
              d == arg[2]
              b == arg[3]
          IN ret = n <=>
                /\ ~isAbsolute(b)
                /\ k > r => ~hasTrailingSeperator(d)
                /\ k <= r /\ Len(d) > 0 /\ Len(b) > 0 => hasTrailingSeperator(d)

C10_Witness ==
    /\ call = "recombine"
    /\ arg = << <<"/", "a", "\\", "a">>, <<"/", "a">>, <<"a">> >>
    /\ ret = <<"/", "a", "/", "a">>

C10_WitnessDriveRelative ==
    /\ call = "recombine"
    /\ arg[1] = <<"a", ":", "a">>
    /\ ret = <<"a", ":", "/", "a">>

(***************************************************************************)
(* Properties of relative, under SpecRelative.                             *)
(***************************************************************************)
\* name equality under the case rule
SameName(a, b, ignoreCase) ==
    IF ignoreCase THEN UpperString(a) = UpperString(b) ELSE a = b

\* the length of the longest common prefix of two component lists
CommonPrefix(fc, tc, ignoreCase) ==
    LET m == IF Len(fc) <= Len(tc) THEN Len(fc) ELSE Len(tc) IN
    CHOOSE k \in 0..m :
        /\ \A i \in 1..k : SameName(fc[i], tc[i], ignoreCase)
        /\ k = m \/ ~SameName(fc[k + 1], tc[k + 1], ignoreCase)

\* C2: resolve(from, relative(from, to, ignoreCase)) is normalize(to), as a
\* string, for every pair of absolute paths and either value of ignoreCase.
C2_ResolveRelativeInverse == call = "resolve" => ret = normalize(arg[2])

\* C6: relative throws exactly when from or to is not rooted, with the
\* check of from made first, and returns a path when both are rooted.
C6_ThrowsUnlessRooted ==
    call = "relative" =>
        /\ ret.threw <=> ~(isAbsolute(arg[1]) /\ isAbsolute(arg[2]))
        /\ ~isAbsolute(arg[1]) => ret.value = "Path not absolute: from"
        /\ isAbsolute(arg[1]) /\ ~isAbsolute(arg[2]) => ret.value = "Path not absolute: to"
        /\ isAbsolute(arg[1]) /\ isAbsolute(arg[2]) => ret.value \in Seq(RelChars)

C6_WitnessThrowFrom ==
    /\ call = "relative"
    /\ arg[1] = <<"a">> /\ arg[2] = <<"a", "/">>
    /\ ret.threw /\ ret.value = "Path not absolute: from"

C6_WitnessThrowTo ==
    /\ call = "relative"
    /\ arg[1] = <<"/", "a">> /\ arg[2] = <<"a">>
    /\ ret.threw /\ ret.value = "Path not absolute: to"

C6_WitnessReturn ==
    /\ call = "relative"
    /\ arg[1] = <<"/", "a">> /\ arg[2] = <<"/", "A">>
    /\ ~ret.threw

C7_WitnessSame ==
    /\ call = "relative"
    /\ arg[1] = <<"/", "a", "/", "A">> /\ arg[2] = arg[1]
    /\ ret = Returned(<<>>)

C7_WitnessIgnoreCase ==
    /\ call = "relative"
    /\ arg = << <<"/", "a", "/", "a">>, <<"/", "A", "/", ".">>, TRUE >>
    /\ ret = Returned(<<".", ".">>)

\* C8, as claimed: when from and to differ at the first component after the
\* root (as "/a" and "/A" do), relative returns the absolute to path.
C8_FirstComponentGivesAbsolute ==
    call = "relative" /\ ~ret.threw =>
        LET fc == reduce(parse(arg[1]))
            tc == reduce(parse(arg[2]))
        IN Len(fc) > 1 /\ Len(tc) > 1 /\ ~SameName(fc[2], tc[2], arg[3]) =>
              ret.value = format(tc) /\ isAbsolute(ret.value)

\* C8, amended: relative returns the formatted reduced components of to,
\* not a ".."-chain, when the reduced component lists differ already at
\* element 0, the root (under the case rule, or because one list is empty);
\* when they share the root and differ at the first component after it, it
\* returns a ".."-chain: ".." for each component of from after the root, then
\* the components of to after the root.
C8_RootDivergence ==
    call = "relative" /\ ~ret.threw =>
        LET fc == reduce(parse(arg[1]))
            tc == reduce(parse(arg[2]))
        IN /\ Len(fc) = 0 \/ Len(tc) = 0 \/ ~SameName(fc[1], tc[1], arg[3]) =>
                ret.value = (IF Len(tc) = 0 THEN <<>> ELSE tc[1] \o Join(Tail(tc)))
           /\ Len(fc) > 1 /\ Len(tc) > 1 /\ SameName(fc[1], tc[1], arg[3])
                 /\ ~SameName(fc[2], tc[2], arg[3]) =>
                ret.value = Join([i \in 1..(Len(fc) - 1) |-> DotDot] \o Tail(tc))

C8_Witness ==
    /\ call = "relative"
    /\ arg = << <<"/", "a">>, <<"/", "/", "a">>, FALSE >>
    /\ ret = Returned(<<"/", "/", "a">>)

C8_WitnessChain ==
    /\ call = "relative"
    /\ arg = << <<"/", "a">>, <<"/", "A">>, FALSE >>
    /\ ret = Returned(<<".", ".", "/", "A">>)

(***************************************************************************)
(* Properties of combine, under SpecCombine.                               *)
(***************************************************************************)
RECURSIVE NonEmptyParts(_)
\* the separator-normalized parts that are not empty, in order
NonEmptyParts(parts) ==
    IF Len(parts) = 0 THEN <<>>
    ELSE LET name == normalizeSlashes(parts[1]) IN
         IF Len(name) = 0 THEN NonEmptyParts(Tail(parts))
         ELSE <<name>> \o NonEmptyParts(Tail(parts))

\* acc and part with one "/" between them
Glue(acc, part) ==
    IF Len(acc) = 0 THEN part
    ELSE IF acc[Len(acc)] = "/" THEN acc \o part
    ELSE acc \o <<"/">> \o part

RECURSIVE GlueAll(_, _)
GlueAll(acc, parts) ==
    IF Len(parts) = 0 THEN acc ELSE GlueAll(Glue(acc, parts[1]), Tail(parts))

\* C9: combine is a left fold over the separator-normalized base and parts:
\* empty parts are skipped, the last rooted part replaces all that came
\* before it, and every part after it is appended with one "/" between the
\* accumulator and the part (none when the accumulator ends in one, and an
\* empty accumulator is replaced by the part).
C9_CombineFold ==
    call = "combine" =>
        LET ps == NonEmptyParts(arg[2])
            rooted == {i \in 1..Len(ps) : isAbsolute(ps[i])}
            j == IF rooted = {} THEN 0 ELSE CHOOSE i \in rooted : \A m \in rooted : m <= i
            start == IF j = 0 THEN normalizeSlashes(arg[1]) ELSE ps[j]
        IN ret = GlueAll(start, SubSeq(ps, j + 1, Len(ps)))

\* a rooted part replaces the accumulated path, a later part is appended
C9_WitnessReplace ==
    /\ call = "combine"
    /\ arg = << <<"a">>, << <<"a", "a">>, <<"/", "a">> >> >>
    /\ ret = <<"/", "a">>

C9_WitnessAppend ==
    /\ call = "combine"
    /\ arg = << <<"a", "/">>, << <<" ">>, <<"a">> >> >>
    /\ ret = <<"a", "/", "a">>

C9_WitnessSeparator ==
    /\ call = "combine"
    /\ arg = << <<"a">>, << <<"a", " ">>, <<"a">> >> >>
    /\ ret = <<"a", "/", "a", "/", "a">>


(***************************************************************************)
(* io: the disk behind fs, compareStrings, getAccessibleFileSystemEntries, *)
(* getEntries and getEntriesWorker.  A disk path is a sequence of names    *)
(* below the working directory; a name is a one-character string.          *)
(***************************************************************************)
MaxDepth == 2
MaxEntries == 3

Names == {<<"a">>, <<"A">>, <<"b">>}

RECURSIVE DiskPaths(_)
\* the disk paths of 1..n names
DiskPaths(n) ==
    IF n = 0 THEN {}
    ELSE DiskPaths(n - 1)
         \cup {<<m>> : m \in Names}
         \cup {q \o <<m>> : q \in DiskPaths(n - 1), m \in Names}

\* the file system's own comparison of two disk paths
SamePath(d, p, q) ==
    /\ Len(p) = Len(q)
    /\ \A i \in 1..Len(p) :
          IF d.caseSensitive THEN p[i] = q[i] ELSE UpperString(p[i]) = UpperString(q[i])

Parent(p) == SubSeq(p, 1, Len(p) - 1)

IsDirectory(d, p) == p = <<>> \/ \E q \in d.dirs : SamePath(d, q, p)

IsFile(d, p) == \E q \in d.files : SamePath(d, q, p)

\* the path under which the disk holds the directory that p names
Stored(d, p) == IF p = <<>> THEN <<>> ELSE CHOOSE q \in d.dirs : SamePath(d, q, p)

\* fs.mkdirSync: throws unless the parent is a directory and nothing has the name
mkdirSync(d, p) ==
    IF IsDirectory(d, Parent(p)) /\ ~IsDirectory(d, p) /\ ~IsFile(d, p)
    THEN [d EXCEPT !.dirs = @ \cup {Stored(d, Parent(p)) \o <<p[Len(p)]>>}]
    ELSE d

\* fs.writeFileSync: throws unless the parent is a directory and the name is
\* not a directory's; an existing file keeps its name
writeFileSync(d, p) ==
    IF IsDirectory(d, Parent(p)) /\ ~IsDirectory(d, p) /\ ~IsFile(d, p)
    THEN [d EXCEPT !.files = @ \cup {Stored(d, Parent(p)) \o <<p[Len(p)]>>}]
    ELSE d

\* fs.unlinkSync: removes a file, throws on anything else
unlinkSync(d, p) == [d EXCEPT !.files = {q \in @ : ~SamePath(d, q, p)}]

\* the collation keys of a character: "/" sorts before the letters, the
\* letters alphabetically, and a lower-case letter before its upper-case one
Primary(c) == CASE c = "/" -> 0 [] c \in {"a", "A"} -> 1 [] c \in {"b", "B"} -> 2 [] OTHER -> 3
Tertiary(c) == IF c \in {"A", "B", "C"} THEN 1 ELSE 0

PrimaryKeys(s) == [i \in 1..Len(s) |-> Primary(s[i])]
TertiaryKeys(s) == [i \in 1..Len(s) |-> Tertiary(s[i])]

RECURSIVE CompareKeys(_, _, _)
\* -1, 0 or +1: the key sequences a and b compared from index i on
CompareKeys(a, b, i) ==
    IF i > Len(a) /\ i > Len(b) THEN 0
    ELSE IF i > Len(a) THEN -1
    ELSE IF i > Len(b) THEN 1
    ELSE IF a[i] < b[i] THEN -1
    ELSE IF a[i] > b[i] THEN 1
    ELSE CompareKeys(a, b, i + 1)

\* collator.compare of the Intl.Collator built with sensitivity "variant"
\* (case-sensitive file names) or "accent" (case-insensitive)
collatorCompare(a, b, caseSensitive) ==
    LET primary == CompareKeys(PrimaryKeys(a), PrimaryKeys(b), 1) IN
    IF primary # 0 THEN primary
    ELSE IF caseSensitive THEN CompareKeys(TertiaryKeys(a), TertiaryKeys(b), 1)
    ELSE 0

\* compareStrings of io, with the collator that Intl provides
ioCompareStrings(a, b, caseSensitive) ==
    IF a = b THEN 0 ELSE collatorCompare(a, b, caseSensitive)

RECURSIVE SortSet(_, _)
\* the strings of S in ascending order (no two of them compare equal)
SortSet(S, caseSensitive) ==
    IF S = {} THEN <<>>
    ELSE LET m == CHOOSE x \in S : \A y \in S : ioCompareStrings(x, y, caseSensitive) <= 0
         IN <<m>> \o SortSet(S \ {m}, caseSensitive)

RECURSIVE InsertSorted(_, _, _, _)
\* x put into the sorted list at the first place from i on where what
\* follows compares greater
InsertSorted(sorted, x, caseSensitive, i) ==
    IF i <= Len(sorted) /\ ioCompareStrings(sorted[i], x, caseSensitive) <= 0
    THEN InsertSorted(sorted, x, caseSensitive, i + 1)
    ELSE SubSeq(sorted, 1, i - 1) \o <<x>> \o SubSeq(sorted, i, Len(sorted))

RECURSIVE SortFrom(_, _, _, _)
SortFrom(results, sorted, caseSensitive, i) ==
    IF i > Len(results) THEN sorted
    ELSE SortFrom(results, InsertSorted(sorted, results[i], caseSensitive, 1), caseSensitive, i + 1)

\* results.sort(compareStrings): a stable sort
Sort(results, caseSensitive) == SortFrom(results, <<>>, caseSensitive, 1)

\* the names fs.readdirSync gives for the directory at p
Children(d, p, kindSet) ==
    {q[Len(q)] : q \in {r \in kindSet : Len(r) = Len(p) + 1 /\ SamePath(d, Parent(r), p)}}

\* the files and directories of the directory at p, each list sorted;
\* both are empty when p is no directory (readdirSync throws)
getAccessibleFileSystemEntries(d, p) ==
    IF ~IsDirectory(d, p) THEN [files |-> <<>>, directories |-> <<>>]
    ELSE [files |-> SortSet(Children(d, p, d.files), d.caseSensitive),
          directories |-> SortSet(Children(d, p, d.dirs), d.caseSensitive)]

\* pattern.test(name) for the pattern /a/; "" stands for no pattern
PatternTest(pattern, name) == \E i \in 1..Len(name) : name[i] = pattern

RECURSIVE PushMatching(_, _, _, _)
\* the first loop of getEntriesWorker from index i on
PushMatching(names, qualifiedname, pattern, i) ==
    IF i > Len(names) THEN <<>>
    ELSE (IF pattern # "" /\ ~PatternTest(pattern, names[i]) THEN <<>>
          ELSE <<combine(qualifiedname, <<names[i]>>)>>)
         \o PushMatching(names, qualifiedname, pattern, i + 1)

RECURSIVE getEntriesWorker(_, _, _, _, _, _)
RECURSIVE WorkSubdirectories(_, _, _, _, _, _, _)
\* the second loop of getEntriesWorker from index i on
WorkSubdirectories(d, p, qualifiedname, pattern, kind, directories, i) ==
    IF i > Len(directories) THEN <<>>
    ELSE getEntriesWorker(d, p \o <<directories[i]>>,
                          combine(qualifiedname, <<directories[i]>>), TRUE, pattern, kind)
         \o WorkSubdirectories(d, p, qualifiedname, pattern, kind, directories, i + 1)

\* what one call of getEntriesWorker for the directory at p pushes to results
getEntriesWorker(d, p, qualifiedname, recursive, pattern, kind) ==
    LET entries == getAccessibleFileSystemEntries(d, p) IN
    PushMatching(entries[kind], qualifiedname, pattern, 1)
    \o (IF recursive
        THEN WorkSubdirectories(d, p, qualifiedname, pattern, kind, entries.directories, 1)
        ELSE <<>>)

\* the disk path a directory name stands for ("" is the working directory)
PathOf(dir) == IF dir = <<>> THEN <<>> ELSE <<dir>>

\* getEntries without the final sort
getEntriesUnsorted(d, dir, options, kind) ==
    getEntriesWorker(d, PathOf(dir), IF options.qualified THEN dir ELSE <<>>,
                     options.recursive, options.pattern, kind)

getEntries(d, dir, options, kind) ==
    LET results == getEntriesWorker(d, PathOf(dir),
                                    IF options.qualified THEN dir ELSE <<>>,
                                    options.recursive, options.pattern, kind)
    IN IF options.recursive THEN Sort(results, d.caseSensitive) ELSE results

(***************************************************************************)
(* io: the calls.                                                          *)
(***************************************************************************)
InitIO ==
    /\ call = "idle" /\ arg = <<>> /\ ret = <<>>
    /\ disk \in {EmptyDisk(caseSensitive) : caseSensitive \in BOOLEAN}
    /\ host = NewHost(TRUE, FALSE) /\ docs = <<>>

\* io.createDirectory: the error of mkdirSync is swallowed
createDirectory ==
    /\ call = "idle"
    /\ Cardinality(disk.dirs) + Cardinality(disk.files) < MaxEntries
    /\ \E p \in DiskPaths(MaxDepth) : disk' = mkdirSync(disk, p)
    /\ UNCHANGED <<call, arg, ret, host, docs>>

\* io.writeFile: the error of writeFileSync reaches the caller
ioWriteFile ==
    /\ call = "idle"
    /\ Cardinality(disk.dirs) + Cardinality(disk.files) < MaxEntries
    /\ \E p \in DiskPaths(MaxDepth) : disk' = writeFileSync(disk, p)
    /\ UNCHANGED <<call, arg, ret, host, docs>>

\* io.deleteFile: the error of unlinkSync is swallowed
deleteFile ==
    /\ call = "idle"
    /\ \E p \in DiskPaths(MaxDepth) : disk' = unlinkSync(disk, p)
    /\ UNCHANGED <<call, arg, ret, host, docs>>

ListOptions == [recursive : BOOLEAN, pattern : {"", "a"}, qualified : BOOLEAN]

\* io.getFiles and io.getDirectories
CallGetEntries ==
    /\ call = "idle"
    /\ \E dir \in {<<>>, <<"a">>, <<"A">>}, options \in ListOptions, kind \in {"files", "directories"} :
          /\ arg' = [dirname |-> dir, options |-> options, kind |-> kind]
          /\ ret' = getEntries(disk, dir, options, kind)
    /\ call' = "getEntries"
    /\ UNCHANGED envVars

NextIO == createDirectory \/ ioWriteFile \/ deleteFile \/ CallGetEntries \/ Return

SpecIO == InitIO /\ [][NextIO]_vars

(***************************************************************************)
(* C11                                                                     *)
(***************************************************************************)
RECURSIVE JoinNames(_)
\* the names of a disk path with "/" between them
JoinNames(p) ==
    IF Len(p) = 0 THEN <<>>
    ELSE IF Len(p) = 1 THEN p[1]
    ELSE p[1] \o <<"/">> \o JoinNames(Tail(p))

\* the entries a listing has to give, each as the disk path from the
\* enumeration root
Listed(d, root, options, kind) ==
    {SubSeq(q, Len(root) + 1, Len(q)) :
        q \in {r \in (IF kind = "files" THEN d.files ELSE d.dirs) :
                 /\ IsDirectory(d, root)
                 /\ Len(r) > Len(root)
                 /\ SamePath(d, SubSeq(r, 1, Len(root)), root)
                 /\ (options.recursive \/ Len(r) = Len(root) + 1)
                 /\ (options.pattern = "" \/ options.pattern \in {r[Len(r)][i] : i \in 1..Len(r[Len(r)])})}}

\* the string a listing gives for an entry
Emitted(dir, options, rel) ==
    IF options.qualified /\ dir # <<>> THEN dir \o <<"/">> \o JoinNames(rel)
    ELSE JoinNames(rel)

Elements(seq) == {seq[i] : i \in 1..Len(seq)}

\* C11 as stated, its part on unqualified listings: with qualified false
\* every result is a bare name
C11_UnqualifiedBareNames ==
    (call = "getEntries" /\ ~arg.options.qualified)
        => \A i \in 1..Len(ret) : \A j \in 1..Len(ret[i]) : ret[i][j] # "/"

\* C11 (amended): a listing gives, once each, exactly the entries of the
\* requested kind below the enumeration root whose own name matches the
\* pattern (all of them without a pattern), those of every depth when
\* recursive and of the top level only when not; each is given as its path
\* from the enumeration root (the bare name only at the top level),
\* prefixed with the root when qualified; a recursive listing is sorted
\* under the case rule
C11_Listing ==
    call = "getEntries" =>
        LET expected == {Emitted(arg.dirname, arg.options, rel) :
                            rel \in Listed(disk, PathOf(arg.dirname), arg.options, arg.kind)}
        IN /\ Elements(ret) = expected
           /\ Len(ret) = Cardinality(expected)
           /\ arg.options.recursive =>
                 \A i \in 1..(Len(ret) - 1) :
                    ioCompareStrings(ret[i], ret[i + 1], disk.caseSensitive) < 0

\* a recursive unqualified listing that the walk gathers out of order and
\* that holds a nested entry
C11_Witness ==
    /\ call = "getEntries"
    /\ arg.options.recursive /\ ~arg.options.qualified
    /\ Len(ret) >= 2
    /\ ret # getEntriesUnsorted(disk, arg.dirname, arg.options, arg.kind)
    /\ \E i \in 1..Len(ret) : "/" \in Elements(ret[i])

\* a qualified listing with a pattern that leaves an entry out
C11_WitnessQualifiedPattern ==
    /\ call = "getEntries"
    /\ arg.options.qualified /\ arg.dirname # <<>> /\ arg.options.pattern # ""
    /\ Len(ret) >= 1
    /\ Cardinality(Children(disk, PathOf(arg.dirname), disk.files)) >= 2


(***************************************************************************)
(* documents: TextFragment and TextDocument.  A document refers to its     *)
(* parent by the parent's index in docs, 0 when it has none.               *)
(***************************************************************************)
MaxTextLen == 2
MaxDocs == 3

TextChars == {"a", "b"}

Min(a, b) == IF a <= b THEN a ELSE b

\* String.prototype.substring: both indices are clamped to the string and
\* swapped when out of order
substring(s, start, end) ==
    LET from == Min(Max(start, 0), Len(s))
        to == Min(Max(end, 0), Len(s))
    IN SubSeq(s, Min(from, to) + 1, Max(from, to))

\* the text of a document built from a fragment of a parent at parentPos
FragmentText(text, parentPos, content) ==
    substring(text, parentPos + content.pos, parentPos + content.end)

TextFragment(parent, pos, end) == [parent |-> parent, pos |-> pos, end |-> end]

\* new TextDocument(file, content) for a string content
TextDocument(file, content) ==
    [file |-> file, parent |-> 0, pos |-> 0, end |-> Len(content), text |-> content]

\* new TextDocument(file, content) for a fragment content, all being the
\* documents built so far
TextDocumentOfFragment(all, file, content) ==
    LET parent == all[content.parent].document IN
    [file |-> file, parent |-> content.parent,
     pos |-> parent.pos + content.pos,
     end |-> parent.pos + content.end,
     text |-> FragmentText(parent.text, parent.pos, content)]

\* a document is built from a string
NewTextDocument ==
    /\ Len(docs) < MaxDocs
    /\ \E content \in StringsOver(TextChars, MaxTextLen) :
          docs' = Append(docs, [document |-> TextDocument(<<"f">>, content), content |-> content])
    /\ UNCHANGED <<call, arg, ret, disk, host>>

\* a document is built from a fragment of an earlier document
NewTextDocumentOfFragment ==
    /\ Len(docs) < MaxDocs
    /\ \E parent \in 1..Len(docs) :
          \E pos \in 0..Len(docs[parent].document.text) :
             \E end \in pos..Len(docs[parent].document.text) :
                LET content == TextFragment(parent, pos, end) IN
                docs' = Append(docs, [document |-> TextDocumentOfFragment(docs, <<"f">>, content),
                                      content |-> content])
    /\ UNCHANGED <<call, arg, ret, disk, host>>

NextDocuments == NewTextDocument \/ NewTextDocumentOfFragment

SpecDocuments == Init /\ [][NextDocuments]_vars

(***************************************************************************)
(* C14                                                                     *)
(***************************************************************************)
\* document i of docs was built from a fragment
OfFragment(i) == docs[i].document.parent # 0

\* C14: every document has text.length = end - pos; one built from a
\* string has pos = 0, end = content.length and the string as text; one
\* built from a fragment has as text the slice of its parent's text from
\* the fragment's pos to the fragment's end, also when the parent is itself
\* a fragment with pos > 0
C14_TextIsSlice ==
    \A i \in 1..Len(docs) :
       LET document == docs[i].document
           content == docs[i].content
       IN /\ Len(document.text) = document.end - document.pos
          /\ ~OfFragment(i) =>
                document.pos = 0 /\ document.end = Len(content) /\ document.text = content
          /\ OfFragment(i) =>
                document.text = SubSeq(docs[content.parent].document.text,
                                       content.pos + 1, content.end)


(***************************************************************************)
(* The virtual file system behind the compiler host: the directories "/"   *)
(* and "/b", the files written so far, a case rule and a current           *)
(* directory.                                                              *)
(***************************************************************************)
MaxWrites == 2
MaxSourceFiles == 1

VfsDirectories == {<<"/">>, <<"/", "b">>}

\* vfs.sameName: equality of names under the case rule of the vfs
sameName(h, a, b) == compareStrings(a, b, ~h.caseSensitive) = 0

vfsIsDirectory(h, path) == \E d \in VfsDirectories : sameName(h, d, path)

\* the files of the vfs that path names, path being absolute
vfsFilesAt(h, path) == {f \in h.files : sameName(h, f.path, path)}

\* the one element of a set of one element; operators below bind what they
\* compute once to a name through it
Only(S) == CHOOSE x \in S : TRUE

\* vfs.getFile: the file at path resolved against the current directory,
\* <<>> when there is none
getFile(h, path) ==
    Only({IF vfsFilesAt(h, absolute) = {} THEN <<>> ELSE <<Only(vfsFilesAt(h, absolute))>> :
             absolute \in {resolve(h.cwd, <<path>>)}})

\* vfs.addFile: no entry when the parent is no directory or the name is a
\* directory's; otherwise the path of the file created or overwritten
addFile(h, path) ==
    Only({IF ~vfsIsDirectory(h, location[2]) \/ vfsIsDirectory(h, location[1]) THEN <<>>
          ELSE IF vfsFilesAt(h, location[1]) = {} \/ h.overwriteRenames THEN <<location[1]>>
          ELSE <<Only(vfsFilesAt(h, location[1])).path>> :
             location \in {<<absolute, dirname(absolute)>> :
                              absolute \in {resolve(h.cwd, <<path>>)}}})

\* entry.setContent on the entry that addFile returned
setContent(h, path, content) ==
    [h EXCEPT !.files = {f \in @ : ~sameName(h, f.path, path)}
                          \cup {[path |-> path, content |-> content]}]

\* vfs.changeDirectory: fails unless path resolves to a directory
changeDirectory(h, path) ==
    Only({IF vfsIsDirectory(h, absolute) THEN [h EXCEPT !.cwd = absolute] ELSE h :
             absolute \in {resolve(h.cwd, <<path>>)}})

(***************************************************************************)
(* compiler: CompilerHost.                                                 *)
(***************************************************************************)
ByteOrderMark == "uFEFF"

toLowerCase(c) == CASE c = "A" -> "a" [] c = "B" -> "b" [] c = "C" -> "c" [] OTHER -> c

LowerString(s) == [i \in 1..Len(s) |-> toLowerCase(s[i])]

getCanonicalFileName(h, fileName) ==
    IF h.caseSensitive THEN fileName ELSE LowerString(fileName)

\* the content of the file, <<>> for undefined
readFile(h, path) ==
    Only({IF entry = <<>> THEN <<>> ELSE <<entry[1].content>> : entry \in {getFile(h, path)}})

RECURSIVE findIndex(_, _, _, _)
\* outputs.findIndex(doc => vfs.sameName(file, doc.file)) from index i on:
\* the index counted from 1, and 0 where the code gives -1
findIndex(h, outputs, file, i) ==
    IF i > Len(outputs) THEN 0
    ELSE IF sameName(h, file, outputs[i].file) THEN i
    ELSE findIndex(h, outputs, file, i + 1)

\* the document pushed whatever outputs holds
pushDocument(h, document, index) == [h EXCEPT !.outputs = Append(@, document)]

\* the document pushed, or put at index (counted from 1) when index is not 0
putDocument(h, document, index) ==
    [h EXCEPT !.outputs = IF index = 0 THEN Append(@, document)
                          ELSE [@ EXCEPT ![index] = document]]

\* writeFile after addFile has returned entry and a successful write
writeEntry(h, path, content) ==
    Only({putDocument(setContent(h, path, content), found[1], found[2]) :
             found \in {<<document, findIndex(h, h.outputs, document.file, 1)>> :
                           document \in {TextDocument(path, content)}}})

\* the host after CompilerHost.writeFile
writeFile(h, fileName, content0, writeByteOrderMark) ==
    Only({IF entry = <<>> THEN h ELSE writeEntry(h, entry[1], content) :
             entry \in {addFile(h, fileName)},
             content \in {IF writeByteOrderMark THEN <<ByteOrderMark>> \o content0
                          ELSE content0}})

\* ts.createSourceFile: the n-th source file the host has parsed
createSourceFile(fileName, content, n) == [fileName |-> fileName, text |-> content, id |-> n]

\* the source file parsed from content and put into the cache
parseAndCache(h, fileName, content) ==
    Only({[host |-> [h EXCEPT !.parsed = @ + 1,
                              !.sourceFiles = [k \in DOMAIN @ \cup {fileName} |->
                                                  IF k = fileName THEN parsed ELSE @[k]]],
           value |-> <<parsed>>, read |-> TRUE] :
             parsed \in {createSourceFile(fileName, content, h.parsed + 1)}})

\* getSourceFile for the canonical name, reading and parsing whatever the
\* cache holds
lookupSourceFileUncached(h, fileName) ==
    Only({IF content = <<>> THEN [host |-> h, value |-> <<>>, read |-> TRUE]
          ELSE parseAndCache(h, fileName, content[1]) :
             content \in {readFile(h, fileName)}})

\* getSourceFile for the canonical name
lookupSourceFile(h, fileName) ==
    IF fileName \in DOMAIN h.sourceFiles
    THEN [host |-> h, value |-> <<h.sourceFiles[fileName]>>, read |-> FALSE]
    ELSE Only({IF content = <<>> THEN [host |-> h, value |-> <<>>, read |-> TRUE]
               ELSE parseAndCache(h, fileName, content[1]) :
                  content \in {readFile(h, fileName)}})

\* CompilerHost.getSourceFile: the host after the call, what the call
\* returns (<<>> for undefined) and whether it read the vfs
getSourceFile(h, fileName0) ==
    Only({lookupSourceFile(h, fileName) :
             fileName \in {getCanonicalFileName(h, resolve(h.cwd, <<fileName0>>))}})

(***************************************************************************)
(* compiler: the calls.                                                    *)
(***************************************************************************)
\* "b" names a directory when the current directory is "/"
FileNames == {<<"a">>, <<"A">>, <<"b">>}

Contents == {<<"x">>}

DirectoryNames == {<<"/">>, <<"b">>}

InitHost ==
    /\ call = "idle" /\ arg = <<>> /\ ret = <<>>
    /\ host \in {NewHost(TRUE, FALSE), NewHost(FALSE, FALSE), NewHost(FALSE, TRUE)}
    /\ disk = EmptyDisk(TRUE) /\ docs = <<>>

CallWriteFile ==
    /\ call = "idle"
    /\ host.writes < MaxWrites
    /\ \E fileName \in FileNames, content \in Contents,
          writeByteOrderMark \in BOOLEAN :
          /\ arg' = [fileName |-> fileName, content |-> content,
                     writeByteOrderMark |-> writeByteOrderMark]
          /\ host' = [writeFile(host, fileName, content, writeByteOrderMark) EXCEPT
                         !.writes = @ + 1]
    /\ call' = "writeFile"
    /\ ret' = <<>>
    /\ UNCHANGED <<disk, docs>>

CallGetSourceFile ==
    /\ call = "idle"
    /\ \E fileName \in FileNames :
          LET result == getSourceFile(host, fileName) IN
          /\ Cardinality(DOMAIN result.host.sourceFiles) <= MaxSourceFiles
          /\ arg' = [fileName |-> fileName]
          /\ host' = result.host
          /\ ret' = [value |-> result.value, read |-> result.read]
    /\ call' = "getSourceFile"
    /\ UNCHANGED <<disk, docs>>

CallChangeDirectory ==
    /\ call = "idle"
    /\ \E path \in DirectoryNames :
          /\ arg' = [path |-> path]
          /\ host' = changeDirectory(host, path)
    /\ call' = "changeDirectory"
    /\ ret' = <<>>
    /\ UNCHANGED <<disk, docs>>

NextHost == CallWriteFile \/ CallGetSourceFile \/ CallChangeDirectory \/ Return

SpecHost == InitHost /\ [][NextHost]_vars


(***************************************************************************)
(* C12                                                                     *)
(***************************************************************************)
\* no two documents of outputs have file names equal under vfs.sameName
C12_NoTwoSameName ==
    \A i, j \in 1..Len(host.outputs) :
       i # j => ~sameName(host, host.outputs[i].file, host.outputs[j].file)

\* what a call of writeFile does to outputs, and that nothing else touches it
C12_WriteStep ==
    IF call' # "writeFile" THEN host'.outputs = host.outputs
    ELSE LET content == IF arg'.writeByteOrderMark
                        THEN <<ByteOrderMark>> \o arg'.content ELSE arg'.content
             entry == addFile(host, arg'.fileName)
             same == {i \in 1..Len(host.outputs) :
                         entry # <<>> /\ sameName(host, entry[1], host.outputs[i].file)}
             before == Len(host.outputs)
         IN IF entry = <<>> THEN host'.outputs = host.outputs
            ELSE IF same = {}
            THEN /\ Len(host'.outputs) = before + 1
                 /\ SubSeq(host'.outputs, 1, before) = host.outputs
                 /\ host'.outputs[before + 1].file = entry[1]
                 /\ host'.outputs[before + 1].text = content
            ELSE /\ Cardinality(same) = 1
                 /\ Len(host'.outputs) = before
                 /\ \A i \in 1..before :
                       IF i \in same
                       THEN /\ host'.outputs[i].file = entry[1]
                            /\ host'.outputs[i].text = content
                       ELSE host'.outputs[i] = host.outputs[i]

C12_WitnessNoEntry ==
    /\ call = "writeFile"
    /\ arg.fileName = <<"b">> /\ host.cwd = <<"/">>
    /\ host.writes = 2
    /\ Len(host.outputs) = 1

(***************************************************************************)
(* C13                                                                     *)
(***************************************************************************)
\* the canonical resolved name of fileName
Key(h, fileName) == getCanonicalFileName(h, resolve(h.cwd, <<fileName>>))

\* the source files the cache holds
Cached(h) == {h.sourceFiles[k] : k \in DOMAIN h.sourceFiles}

\* what a call of getSourceFile does, and that no step changes what the
\* cache holds for a key
C13_Step ==
    /\ \A k \in DOMAIN host.sourceFiles :
          k \in DOMAIN host'.sourceFiles /\ host'.sourceFiles[k] = host.sourceFiles[k]
    /\ call' = "getSourceFile" =>
          LET key == Key(host, arg'.fileName)
              found == vfsFilesAt(host, key)
          IN IF key \in DOMAIN host.sourceFiles
             THEN /\ ret'.value = <<host.sourceFiles[key]>>
                  /\ ~ret'.read
                  /\ host' = host
             ELSE IF found = {}
             THEN ret'.value = <<>> /\ host' = host
             ELSE /\ Len(ret'.value) = 1
                  /\ ret'.value[1].text = (CHOOSE f \in found : TRUE).content
                  /\ ret'.value[1] \notin Cached(host)
                  /\ DOMAIN host'.sourceFiles = DOMAIN host.sourceFiles \cup {key}
                  /\ host'.sourceFiles[key] = ret'.value[1]

\* C13: getSourceFile caches by the canonical resolved name: a call whose
\* name maps to a key of the cache returns the source file cached for it
\* without reading the vfs, whatever writeFile and changeDirectory did in
\* between; a call that finds no file returns undefined and caches nothing;
\* a call that finds a file not yet cached parses its present content and
\* caches the result
C13_SourceFileCache == [][C13_Step]_vars

\* a call answered from the cache with a text that the file no longer has
C13_Witness ==
    /\ call = "getSourceFile"
    /\ ~ret.read
    /\ Len(ret.value) = 1
    /\ \E f \in vfsFilesAt(host, ret.value[1].fileName) : f.content # ret.value[1].text

\* a call that parsed a file after two writes of it
C13_WitnessParsed ==
    /\ call = "getSourceFile"
    /\ ret.read /\ Len(ret.value) = 1
    /\ host.writes = 2 /\ Len(host.outputs) = 1

\* a call that found no file although the vfs holds one
C13_WitnessUndefined ==
    /\ call = "getSourceFile"
    /\ ret.value = <<>>
    /\ host.files # {}

====
